---- MODULE Spec2Model ----
(***************************************************************************)
(* Model of luma.gl's Transform (modules/core/src/lib/transform.js): the   *)
(* double-buffered generation store, feedback mapping, texture bridge,     *)
(* kernel runner and resource registry.                                    *)
(*                                                                         *)
(* GPU objects are handles (naturals).  Handles below Base are supplied by *)
(* the caller; handle Base+k is the k-th object the instance created and   *)
(* heap[k] is its record.  0 stands for null/undefined.                    *)
(***************************************************************************)
EXTENDS Integers, Sequences, FiniteSets, TLC

\* ------------------------------------------------------------------ bounds
\* Most objects the instance creates, per caller profile, before operations that
\* would create another one are cut off.
MaxHeapBuffers == 5
MaxHeapTextures == 4
MaxHeapCounts == 4
\* Most delete() calls in one behaviour.
MaxDeletes == 2
\* Largest element count a caller passes.
MaxCount == 2

\* ----------------------------------------------------------- the universe
Null == 0
Base == 100
\* element count values standing for "key not in opts" and for a non-finite number
Absent == -1
NaN == -2

\* caller-supplied buffers; W is a wrapper object {buffer: B3}
B1 == 1
B2 == 2
B3 == 3
W == 4
\* caller-supplied 2D textures
T1 == 11
T2 == 12
T3 == 13

CallerBuffers == {B1, B2, B3}
CallerTextures == {T1, T2, T3}

Empty == [k \in {} |-> Null]

\* The feedback maps a caller may pass, as ordered <<source, destination>> pairs
\* (for..in visits keys in insertion order).  Index 0 stands for "no map".
FMaps == << << <<"pos", "nextPos">> >>,
            << <<"pos", "nextPos">>, <<"vel", "tex">> >> >>

FMap(m) == IF m = Null THEN << >> ELSE FMaps[m]

\* ----------------------------------------------------------------- state
VARIABLES
  profile,            \* which family of arguments the caller draws from
  phase,              \* "new" before construction, "live", "failed" when the constructor threw
  elementCount,
  currentIndex,
  sourceBuffers,
  sourceTextures,
  feedbackBuffers,
  feedbackMap,
  targetTextures,
  transformFeedbacks,
  framebuffers,
  resources,
  elementIDBuffer,
  targetRefTexName,
  targetTextureVarying,
  renderingToTexture,
  hasSourceTextures,
  swapTexture,        \* this._swapTexture; "undef" while the property does not exist
  model,              \* the kernel program: its vertex count and the delete() calls it got
  heap,               \* the objects the instance created
  released,           \* handle -> number of delete() calls it received
  completed,          \* whether the latest construct/update call returned normally
  last,               \* the latest public call and the error it threw, if any
  runs                \* the two latest run() calls and what happened between them

vars == << profile, phase, elementCount, currentIndex, sourceBuffers, sourceTextures,
           feedbackBuffers, feedbackMap, targetTextures, transformFeedbacks,
           framebuffers, resources, elementIDBuffer, targetRefTexName,
           targetTextureVarying, renderingToTexture, hasSourceTextures,
           swapTexture, model, heap, released, completed, last, runs >>

\* ------------------------------------------------------- object helpers
\* Object.assign(f, g)
Assign(f, g) == [k \in DOMAIN f \cup DOMAIN g |-> IF k \in DOMAIN g THEN g[k] ELSE f[k]]

Put(f, k, v) == [x \in DOMAIN f \cup {k} |-> IF x = k THEN v ELSE f[x]]

\* f[k], undefined when the key is missing
Get(f, k) == IF k \in DOMAIN f THEN f[k] ELSE Null

Other(i) == (i + 1) % 2

NoObj == [kind |-> "none", byteLength |-> 0, data |-> << >>, width |-> 0, height |-> 0,
          attachment |-> Null, buffers |-> Empty]

\* the record of handle h
Obj(s, h) ==
  IF h > Base /\ h - Base <= Len(s.heap) THEN s.heap[h - Base]
  ELSE IF h \in CallerBuffers THEN [NoObj EXCEPT !.kind = "Buffer", !.byteLength = 8 * h]
  ELSE IF h = W THEN [NoObj EXCEPT !.kind = "Object"]
  ELSE IF h = T1 THEN [NoObj EXCEPT !.kind = "Texture2D", !.width = 2, !.height = 2]
  ELSE IF h = T2 THEN [NoObj EXCEPT !.kind = "Texture2D", !.width = 4, !.height = 2]
  ELSE IF h = T3 THEN [NoObj EXCEPT !.kind = "Texture2D", !.width = 2, !.height = 4]
  ELSE NoObj

IsBuffer(s, h) == Obj(s, h).kind = "Buffer"
IsTexture2D(s, h) == Obj(s, h).kind = "Texture2D"

\* bufferOrParams instanceof Buffer ? bufferOrParams : bufferOrParams.buffer
BufferOf(h) == IF h = W THEN B3 ELSE h

\* the handle the next created object gets
NewHandle(s) == Base + Len(s.heap) + 1

Alloc(s, o) == [s EXCEPT !.heap = Append(@, o)]

\* resource.delete()
Release(s, h) == [s EXCEPT !.released = Put(@, h, Get(@, h) + 1)]

Throw(s, e) == [s EXCEPT !.err = e]

\* no exception is propagating
Ok(s) == s.err = ""

\* a statement: skipped while an exception propagates
Step(s, r) == IF Ok(s) THEN r ELSE s

ReleaseIf(s, h) == IF h # Null THEN Release(s, h) ELSE s

\* ------------------------------------------------- resource registry
\* _createNewBuffer(name, opts): the new buffer is NewHandle(s)
_createNewBuffer(s, name, o) ==
  [ReleaseIf(Alloc(s, o), Get(s.resources, name))
     EXCEPT !.resources = Put(@, name, NewHandle(s))]

\* ---------------------------------------------------- feedback mapper
\* one iteration of the loop of _createFeedbackBuffers (lines 407-417)
createFeedbackBuffer(s, given, sourceBufferName, feedbackBufferName) ==
  LET current == s.currentIndex
      sourceBuffer == Get(s.sourceBuffers[current], sourceBufferName)
      buffer == NewHandle(s)
  IN  IF feedbackBufferName # s.targetTextureVarying
         /\ Get(given, feedbackBufferName) = Null
      THEN IF sourceBuffer = Null
           THEN Throw(s, "TypeError")   \* destructuring undefined
           ELSE [_createNewBuffer(s, feedbackBufferName,
                   [NoObj EXCEPT !.kind = "Buffer",
                                 !.byteLength = Obj(s, sourceBuffer).byteLength])
                   EXCEPT !.feedbackBuffers[current] = Put(@, feedbackBufferName, buffer)]
      ELSE s

\* the for..in loop over the feedback map, from pair i on
RECURSIVE createFeedbackLoop(_, _, _)
createFeedbackLoop(s, given, i) ==
  LET fm == FMap(s.feedbackMap)
  IN  IF ~Ok(s) \/ i > Len(fm) THEN s
      ELSE createFeedbackLoop(createFeedbackBuffer(s, given, fm[i][1], fm[i][2]), given, i + 1)

_createFeedbackBuffers(s, given) ==
  IF s.feedbackMap = Null THEN s ELSE createFeedbackLoop(s, given, 1)

\* swapPair with the other generation's source copied from the current source
\* instead of aliased to the current feedback buffer
swapPair_SourceCopied(s, srcName, dstName) ==
  LET current == s.currentIndex
      next == Other(s.currentIndex)
      s1 == [s EXCEPT !.sourceBuffers[next] =
                        Put(@, srcName, Get(s.sourceBuffers[current], srcName)),
                      !.feedbackBuffers[next] =
                        Put(@, dstName, Get(s.sourceBuffers[current], srcName))]
  IN  IF dstName # s.targetTextureVarying
      THEN IF IsBuffer(s1, Get(s1.feedbackBuffers[next], dstName))
           THEN s1 ELSE Throw(s1, "assert")
      ELSE s

\* swapPair without the assertion on the new destination buffer
swapPair_Unasserted(s, srcName, dstName) ==
  IF dstName # s.targetTextureVarying
  THEN [s EXCEPT !.sourceBuffers[Other(s.currentIndex)] =
                   Put(@, srcName, Get(s.feedbackBuffers[s.currentIndex], dstName)),
                 !.feedbackBuffers[Other(s.currentIndex)] =
                   Put(@, dstName, Get(s.sourceBuffers[s.currentIndex], srcName))]
  ELSE s

\* one iteration of the loop of _setupSwapBuffers (lines 447-455)
swapPair(s, srcName, dstName) ==
  LET current == s.currentIndex
      next == Other(s.currentIndex)
      s1 == [s EXCEPT !.sourceBuffers[next] =
                        Put(@, srcName, Get(s.feedbackBuffers[current], dstName)),
                      !.feedbackBuffers[next] =
                        Put(@, dstName, Get(s.sourceBuffers[current], srcName))]
  IN  IF dstName # s.targetTextureVarying
      THEN IF IsBuffer(s1, Get(s1.feedbackBuffers[next], dstName))
           THEN s1 ELSE Throw(s1, "assert")
      ELSE s

RECURSIVE swapBuffersLoop(_, _)
swapBuffersLoop(s, i) ==
  LET fm == FMap(s.feedbackMap)
  IN  IF ~Ok(s) \/ i > Len(fm) THEN s
      ELSE swapBuffersLoop(swapPair(s, fm[i][1], fm[i][2]), i + 1)

_setupSwapBuffers(s) ==
  IF ~Ok(s) \/ s.feedbackMap = Null THEN s
  ELSE LET current == s.currentIndex
           next == Other(s.currentIndex)
       IN  swapBuffersLoop(
             [s EXCEPT !.sourceBuffers[next] = Assign(@, s.sourceBuffers[current]),
                       !.feedbackBuffers[next] = Assign(@, s.feedbackBuffers[current])], 1)

\* the feedbackBuffers assertion of _deduceBufferProps
_deduceBufferProps(s, props) ==
  IF ~Ok(s) \/ \A bufferName \in DOMAIN props.feedbackBuffers :
                  IsBuffer(s, props.feedbackBuffers[bufferName])
                  \/ IsBuffer(s, BufferOf(props.feedbackBuffers[bufferName]))
  THEN s ELSE Throw(s, "assert")

\* lines 317-321 of _setupBuffers: take the map and the buffers of the call
assignBuffers(s, props) ==
  Step(s, [s EXCEPT !.feedbackMap = IF props.feedbackMap # Null THEN props.feedbackMap ELSE @,
                    !.sourceBuffers[s.currentIndex] = Assign(@, props.sourceBuffers),
                    !.feedbackBuffers[s.currentIndex] = Assign(@, props.feedbackBuffers)])

_setupBuffers(s, props) ==
  _setupSwapBuffers(
    _createFeedbackBuffers(
      assignBuffers(_deduceBufferProps(s, props), props), props.feedbackBuffers))

\* ---------------------------------------------------- capture objects
\* setTransformFeedback without the setBuffers() call on an existing capture object
setTransformFeedback_Stale(s, i) ==
  IF s.transformFeedbacks[i] # Null THEN s
  ELSE [Alloc(s, [NoObj EXCEPT !.kind = "TransformFeedback",
                               !.buffers = s.feedbackBuffers[i]])
          EXCEPT !.transformFeedbacks[i] = NewHandle(s)]

\* create transformFeedbacks[i] or setBuffers() on the existing one
setTransformFeedback(s, i) ==
  LET tf == s.transformFeedbacks[i]
  IN  IF tf # Null
      THEN [s EXCEPT !.heap[tf - Base].buffers = Assign(@, s.feedbackBuffers[i])]
      ELSE [Alloc(s, [NoObj EXCEPT !.kind = "TransformFeedback",
                                   !.buffers = s.feedbackBuffers[i]])
              EXCEPT !.transformFeedbacks[i] = NewHandle(s)]

_setupTransformFeedback(s) ==
  IF ~Ok(s) \/ DOMAIN s.feedbackBuffers[s.currentIndex] = {} THEN s
  ELSE IF s.feedbackMap # Null
  THEN setTransformFeedback(setTransformFeedback(s, s.currentIndex), Other(s.currentIndex))
  ELSE setTransformFeedback(s, s.currentIndex)

\* ------------------------------------------------ element-index buffer
_updateElementIDBuffer(s, count) ==
  LET elementIds == [index \in 1..count |-> index - 1]
  IN  IF ~s.hasSourceTextures /\ s.targetTextureVarying = "" THEN s
      ELSE IF s.elementIDBuffer = Null
      THEN [_createNewBuffer(s, "elementIDBuffer",
                             [NoObj EXCEPT !.kind = "Buffer", !.data = elementIds,
                                           !.byteLength = 4 * count])
              EXCEPT !.elementIDBuffer = NewHandle(s)]
      ELSE [s EXCEPT !.heap[s.elementIDBuffer - Base].data = elementIds,
                     !.heap[s.elementIDBuffer - Base].byteLength = 4 * count]

\* _setElementCount rebuilding the index buffer on every change of the count
_setElementCount_Always(s, opts) ==
  LET count == opts.elementCount
      s1 == _updateElementIDBuffer(s, count)
  IN  IF ~Ok(s) \/ count = Absent THEN s
      ELSE IF count = NaN THEN Throw(s, "assert")
      ELSE IF s.elementCount = count THEN s
      ELSE [s1 EXCEPT !.model.vertexCount = count, !.elementCount = count]

\* _setElementCount storing the count without the finiteness assertion
_setElementCount_Unchecked(s, opts) ==
  LET count == opts.elementCount
      s1 == IF s.elementCount < count THEN _updateElementIDBuffer(s, count) ELSE s
  IN  IF ~Ok(s) \/ count = Absent THEN s
      ELSE IF s.elementCount = count THEN s
      ELSE [s1 EXCEPT !.model.vertexCount = count, !.elementCount = count]

_setElementCount(s, opts) ==
  LET count == opts.elementCount
      s1 == IF s.elementCount < count THEN _updateElementIDBuffer(s, count) ELSE s
  IN  IF ~Ok(s) \/ count = Absent THEN s
      ELSE IF count = NaN THEN Throw(s, "assert")
      ELSE IF s.elementCount = count THEN s
      ELSE [s1 EXCEPT !.model.vertexCount = count, !.elementCount = count]

\* ------------------------------------------------------ texture bridge
\* a target texture argument: a Texture2D object (tex) or a source texture name (ref)
NoTarget == [tex |-> Null, ref |-> ""]

Truthy(target) == target.tex # Null \/ target.ref # ""

ResourceName(index) == IF index = 0 THEN "target-texture-0" ELSE "target-texture-1"

\* _buildTargetTexture that also tracks a texture handed in by the caller
_buildTargetTexture_TracksGiven(s, textureOrAttribute, index) ==
  LET refTexture == Get(s.sourceTextures[index], textureOrAttribute.ref)
      texture == NewHandle(s)
      resourceName == ResourceName(index)
      s1 == Alloc([s EXCEPT !.targetRefTexName = textureOrAttribute.ref],
                  [NoObj EXCEPT !.kind = "Texture2D",
                                !.width = Obj(s, refTexture).width,
                                !.height = Obj(s, refTexture).height])
      s3 == ReleaseIf(s1, Get(s.resources, resourceName))
  IN  IF IsTexture2D(s, textureOrAttribute.tex)
      THEN [s EXCEPT !.targetRefTexName = "", !.ret = textureOrAttribute.tex,
                     !.resources = Put(@, resourceName, textureOrAttribute.tex)]
      ELSE IF refTexture = Null THEN Throw(s, "assert")
      ELSE [s3 EXCEPT !.resources = Put(@, resourceName, texture), !.ret = texture]

\* _buildTargetTexture(textureOrAttribute, index); the texture it returns is s.ret
_buildTargetTexture(s, textureOrAttribute, index) ==
  LET refTexture == Get(s.sourceTextures[index], textureOrAttribute.ref)
      texture == NewHandle(s)
      resourceName == ResourceName(index)
      s1 == Alloc([s EXCEPT !.targetRefTexName = textureOrAttribute.ref],
                  [NoObj EXCEPT !.kind = "Texture2D",
                                !.width = Obj(s, refTexture).width,
                                !.height = Obj(s, refTexture).height])
      s3 == ReleaseIf(s1, Get(s.resources, resourceName))
  IN  IF IsTexture2D(s, textureOrAttribute.tex)
      THEN [s EXCEPT !.targetRefTexName = "", !.ret = textureOrAttribute.tex]
      ELSE IF refTexture = Null THEN Throw(s, "assert")
      ELSE [s3 EXCEPT !.resources = Put(@, resourceName, texture), !.ret = texture]

\* Framebuffer.update({attachments}) followed by resize(), or new Framebuffer()
_setupFramebuffer(s, index) ==
  LET framebuffer == s.framebuffers[index]
      texture == s.targetTextures[index]
      o == [NoObj EXCEPT !.kind = "Framebuffer", !.attachment = texture,
                         !.width = Obj(s, texture).width, !.height = Obj(s, texture).height]
  IN  IF ~Ok(s) THEN s
      ELSE IF texture = Null THEN Throw(s, "TypeError")   \* destructuring undefined
      ELSE IF framebuffer # Null THEN [s EXCEPT !.heap[framebuffer - Base] = o]
      ELSE [Alloc(s, o) EXCEPT !.framebuffers[index] = NewHandle(s)]

_setupFramebuffers(s) ==
  IF ~s.renderingToTexture THEN s
  ELSE IF s.swapTexture # "undef"
  THEN _setupFramebuffer(_setupFramebuffer(s, s.currentIndex), Other(s.currentIndex))
  ELSE _setupFramebuffer(s, s.currentIndex)

_setupSwapTextures(s) ==
  LET current == s.currentIndex
      next == Other(s.currentIndex)
      s1 == [s EXCEPT !.sourceTextures[next] = Assign(@, s.sourceTextures[current])]
  IN  IF ~Ok(s) \/ s.swapTexture = "undef" \/ s.targetTextureVarying = "" THEN s
      ELSE [s1 EXCEPT !.sourceTextures[next] = Put(@, s.swapTexture, s.targetTextures[current]),
                      !.targetTextures[next] = Get(s.sourceTextures[current], s.swapTexture)]

\* lines 329-341 of _setupTextures: the swap texture name and the source textures
assignTextures(s, props) ==
  LET \* Object.seal(this) forbids adding _swapTexture after construction
      s0 == IF props.swapTexture = "" THEN s
            ELSE IF s.sealed /\ s.swapTexture = "undef" THEN Throw(s, "TypeError")
            ELSE [s EXCEPT !.swapTexture = props.swapTexture]
      sources == Assign(s.sourceTextures[s.currentIndex], props.sourceTextures)
  IN  IF ~Ok(s) THEN s
      ELSE IF ~Ok(s0) THEN s0
      ELSE IF \E textureName \in DOMAIN props.sourceTextures :
                 ~IsTexture2D(s, props.sourceTextures[textureName])
      THEN Throw(s0, "assert")
      ELSE [s0 EXCEPT !.sourceTextures[s.currentIndex] = sources,
                      !.hasSourceTextures =
                         IF s.currentIndex = 0 THEN DOMAIN sources # {}
                         ELSE DOMAIN s.sourceTextures[0] # {}]

\* lines 344-350 of _setupTextures: _targetTexture as given, or the remembered
\* reference name when the call brings a source texture of that name; s.arg is
\* _targetTexture after it
pickTargetTexture(s, props) ==
  IF ~Ok(s) THEN s
  ELSE IF s.targetTextureVarying = "" \/ Truthy(props.targetTexture)
  THEN [s EXCEPT !.arg = props.targetTexture]
  ELSE IF s.targetRefTexName = "" THEN [s EXCEPT !.arg = NoTarget]
  ELSE IF ~props.texturesGiven THEN Throw(s, "TypeError")  \* undefined[name]
  ELSE IF Get(props.sourceTextures, s.targetRefTexName) # Null
  THEN [s EXCEPT !.arg = [tex |-> Null, ref |-> s.targetRefTexName]]
  ELSE [s EXCEPT !.arg = NoTarget]

\* the assignment of line 352: this.targetTextures[currentIndex] = (what was built)
setTargetTexture(s) == Step(s, [s EXCEPT !.targetTextures[s.currentIndex] = s.ret])

\* lines 351-353 of _setupTextures
buildTargetTexture(s) ==
  IF ~Ok(s) \/ s.targetTextureVarying = "" \/ ~Truthy(s.arg) THEN s
  ELSE setTargetTexture(_buildTargetTexture(s, s.arg, s.currentIndex))

\* lines 359-361 of _setupTextures
setupFramebuffersIfTarget(s) ==
  IF Ok(s) /\ Truthy(s.arg) THEN _setupFramebuffers(s) ELSE s

_setupTextures(s, props) ==
  setupFramebuffersIfTarget(
    _setupSwapTextures(
      buildTargetTexture(pickTargetTexture(assignTextures(s, props), props))))

\* _updateTargetTexture(texture, index)
\* lines 245-259 of _updateTargetTexture: store the texture built (s.ret) and
\* re-attach and resize the framebuffer of that generation, if there is one
attachTargetTexture(s, index) ==
  LET targetTexture == s.ret
      framebuffer == s.framebuffers[index]
  IN  IF ~Ok(s) THEN s
      ELSE IF framebuffer = Null THEN [s EXCEPT !.targetTextures[index] = targetTexture]
      ELSE [s EXCEPT !.targetTextures[index] = targetTexture,
                     !.heap[framebuffer - Base].attachment = targetTexture,
                     !.heap[framebuffer - Base].width = Obj(s, targetTexture).width,
                     !.heap[framebuffer - Base].height = Obj(s, targetTexture).height]

_updateTargetTexture(s, texture, index) ==
  attachTargetTexture(_buildTargetTexture(s, texture, index), index)

\* ------------------------------------------------------ construction
\* _buildModel(props): new Model, then the capture objects, then the element count
_buildModel(s, props) ==
  Step(s, _setElementCount(
            _setupTransformFeedback(
              [s EXCEPT !.model = [exists |-> TRUE, vertexCount |-> props.elementCount,
                                   deleted |-> 0]]), props))

\* _initialize setting renderingToTexture whether or not a texture output is named
_initialize_AlwaysRendering(s, props) ==
  LET s1 == [s EXCEPT !.targetTextureVarying = props.targetTextureVarying,
                      !.renderingToTexture = TRUE]
  IN  _buildModel(_setupTextures(_setupBuffers(s1, props), props), props)

_initialize(s, props) ==
  LET s1 == IF props.targetTextureVarying # ""
            THEN [s EXCEPT !.targetTextureVarying = props.targetTextureVarying,
                           !.renderingToTexture = TRUE]
            ELSE s
  IN  _buildModel(_setupTextures(_setupBuffers(s1, props), props), props)

\* --------------------------------------------------- public operations
\* update(opts)
update(s, opts) ==
  _setupTextures(
    _setupTransformFeedback(_setupBuffers(_setElementCount(s, opts), opts)), opts)

\* swap() that sets the index without wrapping around
swap_NoWrap(s) ==
  IF s.feedbackMap # Null \/ s.swapTexture # "undef"
  THEN [s EXCEPT !.currentIndex = 1]
  ELSE Throw(s, "assert")

\* swap() without its precondition
swap_Unchecked(s) == [s EXCEPT !.currentIndex = (s.currentIndex + 1) % 2]

\* swap()
swap(s) ==
  IF s.feedbackMap # Null \/ s.swapTexture # "undef"
  THEN [s EXCEPT !.currentIndex = (s.currentIndex + 1) % 2]
  ELSE Throw(s, "assert")

\* delete(): every registry entry, then the kernel program
delete(s) ==
  [s EXCEPT !.released = [h \in DOMAIN s.released
                               \cup {s.resources[name] : name \in DOMAIN s.resources} |->
                            Get(s.released, h)
                              + Cardinality({name \in DOMAIN s.resources : s.resources[name] = h})],
            !.model.deleted = @ + 1]

\* getFramebuffer()
getFramebuffer(s) == s.framebuffers[s.currentIndex]

\* _getInputs(): the attributes handed to the kernel
attributesOf(s) ==
  IF s.hasSourceTextures \/ s.targetTextureVarying # ""
  THEN Put(s.sourceBuffers[s.currentIndex], "transform_elementID", s.elementIDBuffer)
  ELSE s.sourceBuffers[s.currentIndex]

\* _setSourceTextureParameters(), called from _getInputs() when the bridge is active.
\* The sampling parameters it sets live in the texture objects and are not tracked.
_setSourceTextureParameters(s) ==
  LET textures == s.sourceTextures[s.currentIndex]
  IN  IF \E name \in DOMAIN textures : textures[name] = Null
      THEN Throw(s, "TypeError")    \* undefined.setParameters
      ELSE s

_getInputs(s) ==
  IF s.hasSourceTextures \/ s.targetTextureVarying # ""
  THEN _setSourceTextureParameters(s) ELSE s

NoRun == [ok |-> FALSE, index |-> 0, attributes |-> Empty, transformFeedback |-> Null,
          captured |-> Empty, discard |-> FALSE, framebuffer |-> Null,
          viewport |-> <<0, 0>>, cleared |-> FALSE, invocations |-> 0,
          chained |-> FALSE, fedBy |-> Empty]

\* run() routing on the existence of a render target instead of renderingToTexture
run_ByFramebuffer(s, clearRenderTarget) ==
  LET s1 == _getInputs(s)
      framebuffer == s1.framebuffers[s1.currentIndex]
      tf == s1.transformFeedbacks[s1.currentIndex]
      call == [NoRun EXCEPT
                 !.ok = TRUE,
                 !.index = s1.currentIndex,
                 !.attributes = attributesOf(s1),
                 !.transformFeedback = tf,
                 !.captured = Obj(s1, tf).buffers,
                 !.discard = framebuffer = Null,
                 !.framebuffer = framebuffer,
                 !.viewport = <<Obj(s1, framebuffer).width, Obj(s1, framebuffer).height>>,
                 !.cleared = framebuffer # Null /\ clearRenderTarget,
                 !.invocations = 1]
  IN  IF ~Ok(s1) THEN s1 ELSE [s1 EXCEPT !.call = call]

\* the model.transform() call run() issues; s.call is that call
run(s, clearRenderTarget) ==
  LET s1 == _getInputs(s)
      framebuffer == s1.framebuffers[s1.currentIndex]
      tf == s1.transformFeedbacks[s1.currentIndex]
      call == [NoRun EXCEPT
                 !.ok = TRUE,
                 !.index = s1.currentIndex,
                 !.attributes = attributesOf(s1),
                 !.transformFeedback = tf,
                 !.captured = Obj(s1, tf).buffers,
                 !.discard = ~s1.renderingToTexture,
                 !.framebuffer = IF s1.renderingToTexture THEN framebuffer ELSE Null,
                 !.viewport = IF s1.renderingToTexture
                              THEN <<Obj(s1, framebuffer).width, Obj(s1, framebuffer).height>>
                              ELSE <<0, 0>>,
                 !.cleared = s1.renderingToTexture /\ clearRenderTarget,
                 !.invocations = 1]
  IN  IF ~Ok(s1) THEN s1
      ELSE IF s1.renderingToTexture /\ framebuffer = Null THEN Throw(s1, "assert")
      ELSE [s1 EXCEPT !.call = call]

\* --------------------------------------------------------- the instance
This ==
  [err |-> "", ret |-> Null, arg |-> NoTarget, call |-> NoRun,
   sealed |-> phase = "live",
   elementCount |-> elementCount, currentIndex |-> currentIndex,
   sourceBuffers |-> sourceBuffers, sourceTextures |-> sourceTextures,
   feedbackBuffers |-> feedbackBuffers, feedbackMap |-> feedbackMap,
   targetTextures |-> targetTextures, transformFeedbacks |-> transformFeedbacks,
   framebuffers |-> framebuffers, resources |-> resources,
   elementIDBuffer |-> elementIDBuffer, targetRefTexName |-> targetRefTexName,
   targetTextureVarying |-> targetTextureVarying,
   renderingToTexture |-> renderingToTexture, hasSourceTextures |-> hasSourceTextures,
   swapTexture |-> swapTexture, model |-> model, heap |-> heap,
   released |-> released]

\* the instance after an operation left it as s
Commit(s) ==
  /\ elementCount' = s.elementCount
  /\ currentIndex' = s.currentIndex
  /\ sourceBuffers' = s.sourceBuffers
  /\ sourceTextures' = s.sourceTextures
  /\ feedbackBuffers' = s.feedbackBuffers
  /\ feedbackMap' = s.feedbackMap
  /\ targetTextures' = s.targetTextures
  /\ transformFeedbacks' = s.transformFeedbacks
  /\ framebuffers' = s.framebuffers
  /\ resources' = s.resources
  /\ elementIDBuffer' = s.elementIDBuffer
  /\ targetRefTexName' = s.targetRefTexName
  /\ targetTextureVarying' = s.targetTextureVarying
  /\ renderingToTexture' = s.renderingToTexture
  /\ hasSourceTextures' = s.hasSourceTextures
  /\ swapTexture' = s.swapTexture
  /\ model' = s.model
  /\ heap' = s.heap
  /\ released' = s.released

instance == << elementCount, currentIndex, sourceBuffers, sourceTextures,
               feedbackBuffers, feedbackMap, targetTextures, transformFeedbacks,
               framebuffers, resources, elementIDBuffer, targetRefTexName,
               targetTextureVarying, renderingToTexture, hasSourceTextures,
               swapTexture, model, heap, released >>

\* ------------------------------------------------------ caller inputs
NoOpts == [sourceBuffers |-> Empty, feedbackBuffers |-> Empty, feedbackMap |-> Null,
           elementCount |-> Absent, sourceTextures |-> Empty, texturesGiven |-> FALSE,
           targetTexture |-> NoTarget, swapTexture |-> "", targetTextureVarying |-> ""]

Pos(b) == [k \in {"pos"} |-> b]
PosVel(b, c) == [k \in {"pos", "vel"} |-> IF k = "pos" THEN b ELSE c]
NextPos(b) == [k \in {"nextPos"} |-> b]
Tin(x) == [k \in {"tin"} |-> x]

ByObject(x) == [tex |-> x, ref |-> ""]
ByName(name) == [tex |-> Null, ref |-> name]

\* The caller profiles: each is a family of constructor and update() arguments.
\*   feedback  a feedback map from construction on, raw buffers
\*   plain     source buffers or none, a feedback map at construction or brought by update()
\*   wrapper   the feedback buffer is passed as a wrapper object {buffer}
\*   routed    a feedback map with a destination that may be the texture output
\*   target    a texture output whose target is given or cloned, no swap texture
\*   swaptex   a texture output with a swap texture name
\*   notarget  source textures without a texture output
\*   retarget  a texture output whose target is replaced through _updateTargetTexture
\*   counts    element counts, with and without the texture bridge
BufferProfiles == {"feedback", "plain", "wrapper", "routed"}
TextureProfiles == {"target", "swaptex", "notarget", "retarget"}
Profiles == BufferProfiles \cup TextureProfiles \cup {"counts"}

Textures(sts, tts, sws, tvs, fms) ==
  { [NoOpts EXCEPT !.sourceBuffers = Pos(B1), !.feedbackMap = fm,
                   !.sourceTextures = st[1], !.texturesGiven = st[2],
                   !.targetTexture = tt, !.swapTexture = sw, !.targetTextureVarying = tv] :
      st \in sts, tt \in tts, sw \in sws, tv \in tvs, fm \in fms }

Buffers(sbs, fbs, fms, tvs) ==
  { [NoOpts EXCEPT !.sourceBuffers = sb, !.feedbackBuffers = fb, !.feedbackMap = fm,
                   !.targetTextureVarying = tv] :
      sb \in sbs, fb \in fbs, fm \in fms, tv \in tvs }

NotGiven == <<Empty, FALSE>>
Given(textures) == <<textures, TRUE>>

\* what the constructor is called with
ConstructProps(p) ==
  CASE p = "feedback" -> Buffers({Pos(B1)}, {Empty, NextPos(B3)}, {1}, {""})
    [] p = "plain"    -> Buffers({Empty, Pos(B1)}, {Empty, NextPos(B3)}, {0, 1}, {""})
    [] p = "wrapper"  -> Buffers({Pos(B1)}, {NextPos(W)}, {0, 1}, {""})
    [] p = "routed"   -> Buffers({Pos(B1), PosVel(B1, B2)}, {Empty}, {2}, {"", "tex"})
    [] p = "target"   -> Textures({NotGiven, Given(Tin(T1))},
                                  {NoTarget, ByObject(T3), ByName("tin")},
                                  {""}, {"tex"}, {0, 1})
    [] p = "swaptex"  -> Textures({NotGiven, Given(Tin(T1))},
                                  {NoTarget, ByObject(T3), ByName("tin")},
                                  {"tin"}, {"tex"}, {0})
    [] p = "notarget" -> Textures({NotGiven, Given(Tin(T1))}, {NoTarget, ByObject(T3)},
                                  {"", "tin"}, {""}, {0})
    [] p = "retarget" -> Textures({Given(Tin(T1))}, {ByObject(T3), ByName("tin")},
                                  {"", "tin"}, {"tex"}, {0})
    [] OTHER ->
        { [NoOpts EXCEPT !.sourceBuffers = Pos(B1), !.elementCount = n,
                         !.sourceTextures = st[1], !.texturesGiven = st[2],
                         !.targetTexture = tt, !.targetTextureVarying = tv] :
            n \in (0..MaxCount) \cup {Absent, NaN},
            st \in {NotGiven, Given(Tin(T1))},
            tt \in {NoTarget, ByObject(T3)}, tv \in {"", "tex"} }

NoBuffers(opts) == [opts EXCEPT !.sourceBuffers = Empty]

\* what update() is called with: buffers only, textures only, the element count only,
\* nothing at all
UpdateOpts(p) ==
  CASE p = "feedback" -> Buffers({Empty, Pos(B2)}, {Empty, NextPos(B3)}, {0}, {""})
    [] p = "plain"    -> Buffers({Empty, Pos(B2)}, {Empty}, {0, 1}, {""})
    [] p = "wrapper"  -> Buffers({Empty}, {Empty, NextPos(W)}, {0, 1}, {""})
    [] p = "routed"   -> Buffers({Empty, Pos(B2)}, {Empty}, {0}, {""})
    [] p = "target"   -> { NoBuffers(o) :
                             o \in Textures({NotGiven, Given(Empty), Given(Tin(T2))},
                                            {NoTarget, ByObject(T3), ByName("tin")},
                                            {""}, {""}, {0}) }
    [] p = "swaptex"  -> { NoBuffers(o) :
                             o \in Textures({NotGiven, Given(Tin(T2))},
                                            {NoTarget, ByObject(T3), ByName("tin")},
                                            {""}, {""}, {0}) }
    [] p = "notarget" -> { NoBuffers(o) :
                             o \in Textures({NotGiven, Given(Tin(T2))},
                                            {NoTarget, ByObject(T3)},
                                            {"", "tin"}, {""}, {0}) }
    [] p = "retarget" -> { NoBuffers(o) :
                             o \in Textures({Given(Empty), Given(Tin(T2))}, {NoTarget},
                                            {""}, {""}, {0}) }
    [] OTHER ->
        { [NoOpts EXCEPT !.elementCount = n, !.sourceTextures = st[1],
                         !.texturesGiven = st[2]] :
            n \in (0..MaxCount) \cup {Absent, NaN},
            st \in {NotGiven, Given(Tin(T2))} }

MaxHeap(p) ==
  IF p \in BufferProfiles THEN MaxHeapBuffers
  ELSE IF p \in TextureProfiles THEN MaxHeapTextures
  ELSE MaxHeapCounts

\* ------------------------------------------------------------ history
NoCall == [op |-> "none", err |-> ""]

Called(op, s) == last' = [op |-> op, err |-> s.err]

NoRuns == [last |-> NoRun, since |-> "other"]

\* --------------------------------------------------------------- Init
\* the fields as the constructor sets them before _initialize (lines 36-69)
Init ==
  /\ profile \in Profiles
  /\ phase = "new"
  /\ elementCount = 0
  /\ currentIndex = 0
  /\ sourceBuffers = [i \in 0..1 |-> Empty]
  /\ sourceTextures = [i \in 0..1 |-> Empty]
  /\ feedbackBuffers = [i \in 0..1 |-> Empty]
  /\ feedbackMap = Null
  /\ targetTextures = [i \in 0..1 |-> Null]
  /\ transformFeedbacks = [i \in 0..1 |-> Null]
  /\ framebuffers = [i \in 0..1 |-> Null]
  /\ resources = Empty
  /\ elementIDBuffer = Null
  /\ targetRefTexName = ""
  /\ targetTextureVarying = ""
  /\ renderingToTexture = FALSE
  /\ hasSourceTextures = FALSE
  /\ swapTexture = "undef"
  /\ model = [exists |-> FALSE, vertexCount |-> Absent, deleted |-> 0]
  /\ heap = << >>
  /\ released = Empty
  /\ completed = FALSE
  /\ last = NoCall
  /\ runs = NoRuns

\* ------------------------------------------------------------ actions
\* The caller does not use an instance it has disposed of, except to dispose of it
\* again (model.deleted = 0 guards every other operation).
\* new Transform(gl, props)
Construct ==
  /\ phase = "new"
  /\ \E props \in ConstructProps(profile) :
       \E s \in {_initialize(This, props)} :
         /\ Len(s.heap) <= MaxHeap(profile)
         /\ IF Ok(s) THEN phase' = "live" /\ Commit(s)
                     ELSE phase' = "failed" /\ UNCHANGED instance
         /\ Called("construct", s)
         /\ completed' = Ok(s)
         /\ UNCHANGED << profile, runs >>

Update ==
  /\ phase = "live"
  /\ model.deleted = 0
  /\ \E opts \in UpdateOpts(profile) :
       \E s \in {update(This, opts)} :
         /\ Len(s.heap) <= MaxHeap(profile)
         /\ Commit(s)
         /\ Called("update", s)
         /\ completed' = Ok(s)
         /\ runs' = NoRuns
         /\ UNCHANGED << profile, phase >>

UpdateTargetTexture ==
  /\ phase = "live"
  /\ model.deleted = 0
  /\ profile = "retarget"
  /\ \E texture \in {ByObject(T3), ByName("tin")}, index \in 0..1 :
       \E s \in {_updateTargetTexture(This, texture, index)} :
         /\ Len(s.heap) <= MaxHeap(profile)
         /\ Commit(s)
         /\ Called("updateTargetTexture", s)
         /\ runs' = NoRuns
         /\ UNCHANGED << profile, phase, completed >>

Swap ==
  /\ phase = "live"
  /\ model.deleted = 0
  /\ \E s \in {swap(This)} :
       /\ Commit(s)
       /\ Called("swap", s)
       /\ runs' = IF Ok(s) /\ runs.since = "none"
                  THEN [runs EXCEPT !.since = "swap"] ELSE NoRuns
       /\ UNCHANGED << profile, phase, completed >>

\* fedBy: what the previous run() captured, when exactly one swap() and nothing else
\* came between that run() and this one
Run ==
  /\ phase = "live"
  /\ model.deleted = 0
  /\ \E clearRenderTarget \in IF profile = "target" THEN BOOLEAN ELSE {TRUE} :
       \E s \in {run(This, clearRenderTarget)} :
         LET chained == Ok(s) /\ runs.last.ok /\ runs.since = "swap"
             fedBy == IF chained THEN runs.last.captured ELSE Empty
         IN  /\ Commit(s)
             /\ Called("run", s)
             /\ runs' = [last |-> [s.call EXCEPT !.fedBy = fedBy, !.chained = chained],
                         since |-> "none"]
             /\ UNCHANGED << profile, phase, completed >>

Delete ==
  /\ phase = "live"
  /\ model.deleted < MaxDeletes
  /\ \E s \in {delete(This)} :
       /\ Commit(s)
       /\ Called("delete", s)
       /\ runs' = NoRuns
       /\ UNCHANGED << profile, phase, completed >>

Next == Construct \/ Update \/ UpdateTargetTexture \/ Swap \/ Run \/ Delete

Spec == Init /\ [][Next]_vars

\* ============================================================== claims
\* the feedback-map pairs that are buffer-routed (destination is not the texture output)
BufferPairs ==
  { pair \in { FMap(feedbackMap)[i] : i \in 1..Len(FMap(feedbackMap)) } :
      pair[2] # targetTextureVarying }

Configured == phase = "live" /\ completed /\ feedbackMap # Null

\* C1: once a construct or update call made with a feedback map has completed, and
\* after any number of swaps, for every buffer-routed pair (src -> dst) the other
\* generation's source src is the current generation's feedback dst, and the other
\* generation's feedback dst is the current generation's source src.
C1_CrossGenerationAliasing ==
  Configured =>
    \A pair \in BufferPairs :
      LET src == pair[1]
          dst == pair[2]
          current == currentIndex
          other == Other(currentIndex)
      IN  /\ Get(feedbackBuffers[current], dst) # Null
          /\ Get(sourceBuffers[current], src) # Null
          /\ Get(sourceBuffers[other], src) = Get(feedbackBuffers[current], dst)
          /\ Get(feedbackBuffers[other], dst) = Get(sourceBuffers[current], src)

\* a swap() completed after a reconfiguration under a feedback map that left source
\* and feedback buffers distinct
C1_Witness ==
  /\ Configured /\ BufferPairs # {}
  /\ last.op = "swap" /\ last.err = ""
  /\ \E k \in 1..Len(heap) : Get(released, Base + k) > 0
  /\ Get(sourceBuffers[0], "pos") # Get(sourceBuffers[1], "pos")

\* C2: under a feedback map, in run(); swap(); run() with no reconfiguration in
\* between, the buffer the later run binds as input src is the buffer the capture
\* object of the earlier run wrote dst into, and each run's capture object holds
\* the current generation's feedback buffers.
C2_RunFeedsNextRun ==
  (Configured /\ last.op = "run" /\ last.err = "") =>
    \A pair \in BufferPairs :
      /\ Get(runs.last.captured, pair[2]) = Get(feedbackBuffers[currentIndex], pair[2])
      /\ runs.last.chained =>
           BufferOf(Get(runs.last.attributes, pair[1])) = BufferOf(Get(runs.last.fedBy, pair[2]))

\* the second run of run(); swap(); run() after an update() that auto-created buffers
C2_Witness ==
  /\ Configured /\ BufferPairs # {}
  /\ last.op = "run" /\ last.err = "" /\ runs.last.chained
  /\ Get(runs.last.fedBy, "nextPos") > Base + 1

\* C3: a permitted swap() sets the generation index to the other value of {0,1},
\* a second swap() would bring it back, and swap() changes nothing else.
C3_SwapFlipsIndexOnly ==
  [][ (last'.op = "swap" /\ last'.err = "") =>
        /\ feedbackMap # Null \/ swapTexture # "undef"
        /\ currentIndex' \in {0, 1} \ {currentIndex}
        /\ swap(swap(This)).currentIndex = currentIndex
        /\ UNCHANGED << elementCount, sourceBuffers, sourceTextures, feedbackBuffers,
                        feedbackMap, targetTextures, transformFeedbacks, framebuffers,
                        resources, elementIDBuffer, targetRefTexName,
                        targetTextureVarying, renderingToTexture, hasSourceTextures,
                        swapTexture, model, heap, released >> ]_vars

\* two swaps in a row have completed: the index is back at 0
C3_Witness ==
  /\ last.op = "swap" /\ last.err = "" /\ currentIndex = 0
  /\ feedbackMap # Null \/ swapTexture # "undef"

\* C4: swap() with neither a feedback map nor a swap-texture name fails with an
\* assertion error and leaves the instance as it was.
C4_SwapWithoutAliasingFails ==
  [][ (last'.op = "swap" /\ feedbackMap = Null /\ swapTexture = "undef") =>
        /\ last'.err = "assert"
        /\ UNCHANGED instance ]_vars

C4_Witness ==
  /\ last.op = "swap" /\ last.err = "assert"
  /\ feedbackMap = Null /\ swapTexture = "undef" /\ currentIndex = 0

\* C5: a configuration call auto-creates a feedback buffer for a destination name
\* only if the name is not the texture output and the current generation had no
\* feedback buffer of that name.  (A new registry entry under the name is the trace
\* of an auto-creation.)
C5_CreatesOnlyMissingFeedbackBuffers ==
  [][ (last'.op \in {"construct", "update"} /\ last'.err = "") =>
        \A dst \in {"nextPos", "tex"} :
          Get(resources', dst) # Get(resources, dst) =>
            /\ dst # targetTextureVarying'
            /\ Get(feedbackBuffers[currentIndex], dst) = Null ]_vars

BridgeActive == hasSourceTextures \/ targetTextureVarying # ""

\* what _updateElementIDBuffer writes for a count of n
Iota(n) == [i \in 1..n |-> i - 1]

IDData(h, id) == IF id = Null THEN << >> ELSE h[id - Base].data

\* C6: with the bridge active, an update() that raises the element count leaves the
\* element-index buffer holding exactly 0..E2-1; one that lowers it rebuilds nothing
\* (same buffer, same contents), and the first E3 entries are 0..E3-1.
C6_IndexBufferOnCountChange ==
  [][ (last'.op = "update" /\ BridgeActive) =>
        /\ elementCount' > elementCount =>
             /\ elementIDBuffer' # Null
             /\ IDData(heap', elementIDBuffer') = Iota(elementCount')
        /\ elementCount' < elementCount =>
             /\ elementIDBuffer' = elementIDBuffer
             /\ IDData(heap', elementIDBuffer') = IDData(heap, elementIDBuffer)
             /\ elementIDBuffer # Null =>
                  /\ Len(IDData(heap', elementIDBuffer')) >= elementCount'
                  /\ SubSeq(IDData(heap', elementIDBuffer'), 1, elementCount')
                       = Iota(elementCount') ]_vars

\* the count was raised, then lowered, with an index buffer in place
C6_Witness ==
  /\ last.op = "update" /\ last.err = "" /\ BridgeActive
  /\ elementIDBuffer # Null
  /\ 0 < elementCount /\ elementCount < Len(IDData(heap, elementIDBuffer))

RenderTargetSize(id) == <<heap[id - Base].width, heap[id - Base].height>>

\* C7 as claimed: run() routes on whether the current generation has a render
\* target, always issues one kernel invocation and never fails.
C7_RoutesOnRenderTarget ==
  last.op = "run" =>
    /\ last.err = ""
    /\ runs.last.invocations = 1
    /\ IF framebuffers[currentIndex] # Null
       THEN /\ ~runs.last.discard
            /\ runs.last.framebuffer = framebuffers[currentIndex]
            /\ runs.last.viewport = RenderTargetSize(framebuffers[currentIndex])
       ELSE runs.last.discard /\ runs.last.framebuffer = Null

\* C7 amended: run() routes on whether a texture output was configured.  With one,
\* it needs the current generation's render target: it binds it with discard off and
\* the viewport at its full size, and fails (assertion, no kernel invocation) when
\* there is none; it also fails when a current source texture binding is undefined.
\* Without a texture output it discards rasterization and touches no render target.
\* A run() that completes has issued exactly one kernel invocation.
C7_RoutesOnTextureOutput ==
  last.op = "run" =>
    IF last.err = ""
    THEN /\ runs.last.invocations = 1
         /\ runs.last.discard = ~renderingToTexture
         /\ IF renderingToTexture
            THEN /\ framebuffers[currentIndex] # Null
                 /\ runs.last.framebuffer = framebuffers[currentIndex]
                 /\ runs.last.viewport = RenderTargetSize(framebuffers[currentIndex])
            ELSE runs.last.framebuffer = Null
    ELSE /\ runs.last.invocations = 0
         /\ renderingToTexture
         /\ \/ last.err = "assert" /\ framebuffers[currentIndex] = Null
            \/ /\ last.err = "TypeError"
               /\ \E name \in DOMAIN sourceTextures[currentIndex] :
                    sourceTextures[currentIndex][name] = Null

\* a run() that rendered into the render target of generation 1
C7_Witness ==
  /\ last.op = "run" /\ last.err = "" /\ currentIndex = 1
  /\ ~runs.last.discard /\ runs.last.framebuffer > Base

\* C8: without a texture output at construction no render target ever exists:
\* getFramebuffer() returns none and every run() completes with discard on and no
\* render target.
C8_NoTextureOutputNoRenderTarget ==
  (phase = "live" /\ targetTextureVarying = "") =>
    /\ \A i \in 0..1 : framebuffers[i] = Null
    /\ getFramebuffer(This) = Null
    /\ \A k \in 1..Len(heap) : heap[k].kind # "Framebuffer"
    /\ last.op = "run" =>
         /\ last.err = ""
         /\ runs.last.discard /\ runs.last.framebuffer = Null

\* a run() on generation 1 of an instance with source textures and no texture output
C8_Witness ==
  /\ phase = "live" /\ targetTextureVarying = ""
  /\ last.op = "run" /\ last.err = "" /\ runs.last.discard
  /\ hasSourceTextures /\ currentIndex = 1

\* C9: after delete() every object the instance created has been released, and so
\* has the kernel program.
C9_DeleteReleasesAllCreated ==
  last.op = "delete" =>
    /\ \A k \in 1..Len(heap) : Get(released, Base + k) >= 1
    /\ model.deleted >= 1

\* C10: no object is released more than once over any sequence of operations: a
\* second delete() does not run through the registry again.
C10_NothingReleasedTwice ==
  \A h \in DOMAIN released : released[h] <= 1

\* the objects bound in a table of named handles
Bound(table) == { table[name] : name \in DOMAIN table }

\* C11: the instance never releases a buffer or texture the caller supplied; every
\* object that was ever released is one the instance created itself.
C11_ReleasesOnlyOwnObjects ==
  \A h \in DOMAIN released : released[h] > 0 => h > Base /\ h - Base <= Len(heap)

\* delete() has run on an instance holding caller buffers, a caller target texture
\* and objects of its own
C11_Witness ==
  /\ last.op = "delete" /\ last.err = ""
  /\ \E h \in DOMAIN released : released[h] > 0
  /\ \E i \in 0..1 : Bound(sourceBuffers[i]) \cap CallerBuffers # {}
  /\ \E i \in 0..1 : targetTextures[i] \in CallerTextures
  /\ \E i \in 0..1 : Bound(sourceTextures[i]) \cap CallerTextures # {}

\* the subsets of the configuration update() is called with in C12: nothing, the
\* element count only, source buffers only, source textures only
ValidSubsets ==
  {NoOpts}
    \cup { [NoOpts EXCEPT !.elementCount = n] : n \in 0..MaxCount }
    \cup { [NoOpts EXCEPT !.sourceBuffers = Pos(B2)] }
    \cup { [NoOpts EXCEPT !.sourceTextures = Tin(T2), !.texturesGiven = TRUE] }

\* C12: in every state reachable after a successful construct, update() called
\* with any subset of the configuration (valid values) completes without error,
\* also with no source textures after the target texture was cloned by name.
C12_UpdateAcceptsAnySubset ==
  (phase = "live" /\ model.deleted = 0) =>
    \A opts \in ValidSubsets : Ok(update(This, opts))

\* update() options whose element count is not a finite number
NonFiniteOpts ==
  { [opts EXCEPT !.elementCount = NaN] : opts \in UpdateOpts(profile) \cup ValidSubsets }

\* the call that left the instance as r threw an assertion error and changed nothing
Rejected(r) == r.err = "assert" /\ [r EXCEPT !.err = ""] = This

\* C13: update() with a non-finite element count fails with an assertion error and
\* leaves the element count, the index buffer, the kernel's vertex count and every
\* binding of both generations as they were.
C13_NonFiniteCountRejected ==
  (phase = "live" /\ model.deleted = 0) =>
    \A opts \in NonFiniteOpts : Rejected(update(This, opts))

\* such an update() has been refused on an instance with a count and an index buffer
C13_Witness ==
  /\ profile = "counts" /\ last.op = "update" /\ last.err = "assert"
  /\ elementCount > 0 /\ elementIDBuffer # Null /\ model.vertexCount = elementCount

\* the one source texture name callers use, also as reference for a cloned target
RefName == "tin"

\* <<width, height>> of texture h, given the created objects hp
Size(hp, h) == <<Obj([heap |-> hp], h).width, Obj([heap |-> hp], h).height>>

\* a target texture the instance cloned (every clone is cloned from RefName)
IsClone(h) == h > Base

\* C14: under construct/update/swap, a current target texture that was cloned from
\* source texture name R has the width and height of the source texture bound
\* under R in the current generation; an update() that replaces source texture R
\* re-clones the target and leaves the generation's render target attached to the
\* new clone at the new size.  (The retarget profile also calls
\* _updateTargetTexture and is outside the claim.)
C14_CloneTracksReference ==
  [][ profile # "retarget" =>
        /\ (phase' = "live" /\ IsClone(targetTextures'[currentIndex'])) =>
              /\ Get(sourceTextures'[currentIndex'], RefName) # Null
              /\ Size(heap', targetTextures'[currentIndex'])
                   = Size(heap', sourceTextures'[currentIndex'][RefName])
        /\ (/\ last'.op = "update" /\ last'.err = ""
            /\ IsClone(targetTextures[currentIndex])
            /\ IsClone(targetTextures'[currentIndex])
            /\ Get(sourceTextures'[currentIndex], RefName)
                 # Get(sourceTextures[currentIndex], RefName)) =>
              /\ targetTextures'[currentIndex] # targetTextures[currentIndex]
              /\ framebuffers'[currentIndex] # Null
              /\ heap'[framebuffers'[currentIndex] - Base].attachment
                   = targetTextures'[currentIndex]
              /\ Size(heap', framebuffers'[currentIndex])
                   = Size(heap', sourceTextures'[currentIndex][RefName]) ]_vars

\* C15: after every completed construct or update call, and after any swaps, each
\* generation's render target, when it exists, has that generation's current
\* target texture as its colour attachment.
C15_RenderTargetWrapsTarget ==
  (phase = "live" /\ completed /\ profile # "retarget") =>
    \A i \in 0..1 :
      framebuffers[i] # Null =>
        heap[framebuffers[i] - Base].attachment = targetTextures[i]

\* a swap-texture name and a texture output are configured and the latest
\* construct/update call completed
SwapTextureConfigured ==
  /\ phase = "live" /\ completed /\ profile # "retarget"
  /\ swapTexture # "undef" /\ targetTextureVarying # ""

\* C16: with a swap-texture name S and a texture output, after every completed
\* construct or update call and after any swaps, the other generation's source
\* texture S is the current generation's target texture, the other generation's
\* target texture is the current generation's source texture S, and both are 2D
\* textures.
C16_TextureCrossAliasing ==
  SwapTextureConfigured =>
    LET current == currentIndex
        other == Other(currentIndex)
    IN  /\ Get(sourceTextures[other], swapTexture) = targetTextures[current]
        /\ targetTextures[other] = Get(sourceTextures[current], swapTexture)
        /\ IsTexture2D(This, targetTextures[current])
        /\ IsTexture2D(This, targetTextures[other])

\* the keys of the feedback map in effect
MapKeys == { FMap(feedbackMap)[i][1] : i \in 1..Len(FMap(feedbackMap)) }

\* C17 as claimed: after every successful construct or update call with a feedback
\* map in effect, every key of the map, also one whose destination is the texture
\* output, names a source buffer bound in the current generation.
C17_MapKeysAreSourceBuffers ==
  (phase = "live" /\ feedbackMap # Null
     /\ last.op \in {"construct", "update"} /\ last.err = "") =>
    \A key \in MapKeys : Get(sourceBuffers[currentIndex], key) # Null

\* C17 amended: after every successful construct or update call with a feedback map
\* in effect, every key whose destination is not the texture output names a source
\* buffer bound in the current generation (a call that would break this fails);
\* keys routed to the texture output are not checked.
C17_BufferRoutedKeysAreSourceBuffers ==
  (phase = "live" /\ feedbackMap # Null
     /\ last.op \in {"construct", "update"} /\ last.err = "") =>
    \A pair \in BufferPairs : Get(sourceBuffers[currentIndex], pair[1]) # Null

\* a construct call completed under a map with a key routed to the texture output
\* that is no source buffer, next to a buffer-routed key that is one
C17_Witness ==
  /\ phase = "live" /\ last.op = "construct" /\ last.err = ""
  /\ feedbackMap # Null /\ BufferPairs # {}
  /\ \E key \in MapKeys : key \notin DOMAIN sourceBuffers[currentIndex]

\* the bridge as C18 states it: a source texture is bound in the current
\* generation, or the kernel has a texture output
BridgeInUse == DOMAIN sourceTextures[currentIndex] # {} \/ targetTextureVarying # ""

\* C18: when run() completes with the bridge in use and a positive element count,
\* an element-index buffer exists, holds at least elementCount entries with entry
\* i equal to i, and is the buffer bound as the element-index attribute.
C18_IndexBufferAtRun ==
  (last.op = "run" /\ last.err = "" /\ BridgeInUse /\ elementCount > 0) =>
    /\ elementIDBuffer # Null
    /\ Len(IDData(heap, elementIDBuffer)) >= elementCount
    /\ \A i \in 1..elementCount : IDData(heap, elementIDBuffer)[i] = i - 1
    /\ Get(runs.last.attributes, "transform_elementID") = elementIDBuffer

\* C19: the index buffer is regenerated only when the requested element count
\* exceeds the length of the buffer built before: an update() whose count is at
\* most that length leaves the buffer and its contents as they were.
C19_RegeneratesOnlyPastLastBuild ==
  [][ (/\ last'.op = "update"
       /\ elementIDBuffer # Null
       /\ elementCount' <= Len(IDData(heap, elementIDBuffer))) =>
        /\ elementIDBuffer' = elementIDBuffer
        /\ IDData(heap', elementIDBuffer') = IDData(heap, elementIDBuffer) ]_vars

\* every object bound in the instance: in the buffer and texture tables of both
\* generations, as a target texture, in a capture object or in a render target
BoundObjects ==
  UNION { Bound(sourceBuffers[i]) \cup Bound(feedbackBuffers[i])
            \cup Bound(sourceTextures[i]) \cup {targetTextures[i]}
            \cup (IF transformFeedbacks[i] = Null THEN {}
                  ELSE Bound(heap[transformFeedbacks[i] - Base].buffers))
            \cup (IF framebuffers[i] = Null THEN {}
                  ELSE {heap[framebuffers[i] - Base].attachment}) : i \in 0..1 }

\* C20: before delete(), after any construct/update/swap calls, no object the
\* instance has released is still bound anywhere.
C20_NoReleasedObjectBound ==
  (phase = "live" /\ model.deleted = 0 /\ profile # "retarget") =>
    \A h \in DOMAIN released : released[h] > 0 => h \notin BoundObjects

\* swap() is permitted and the latest construct/update call completed
SwapPermitted ==
  /\ phase = "live" /\ model.deleted = 0 /\ completed /\ profile # "retarget"
  /\ feedbackMap # Null \/ swapTexture # "undef"

\* C21: whenever swap() is permitted, every source-buffer name bound in the current
\* generation is bound in the other generation too, to the same buffer when the
\* name is not a feedback-map key, whether swapping is enabled by a feedback map
\* or only by a swap-texture name.
C21_SwapKeepsBufferInputs ==
  SwapPermitted =>
    \A name \in DOMAIN sourceBuffers[currentIndex] :
      sourceBuffers[currentIndex][name] # Null =>
        /\ Get(sourceBuffers[Other(currentIndex)], name) # Null
        /\ name \notin MapKeys =>
             sourceBuffers[Other(currentIndex)][name] = sourceBuffers[currentIndex][name]

====
